---- MODULE Spec2Model ----
(***************************************************************************)
(* CheckedFile of libE57Format (src/src/CheckedFile.cpp): a stream of      *)
(* logical bytes stored as fixed-size physical pages, each page ending in  *)
(* a 4-byte CRC-32C of its data region.                                    *)
(*                                                                         *)
(* Page geometry is scaled: the source has physicalPageSizeLog2 = 10       *)
(* (pages of 1024 bytes, 1020 of data); here the exponent is a bound, so   *)
(* that whole images fit in a state.  All offsets, page numbers and the    *)
(* checksum suffix are computed from it exactly as the source does.        *)
(*                                                                         *)
(* A 32-bit unsigned value is a tuple of four bytes, least significant     *)
(* first, which is also its layout in a page on the little-endian hosts    *)
(* the source assumes.                                                     *)
(***************************************************************************)
EXTENDS Integers, Sequences, FiniteSets, TLC

\* ---------------------------------------------------------------- bounds
physicalPageSizeLog2 == 3
MaxPages == 3
MaxOps == 3
MaxReadOps == 2
MaxFaultOps == 2

\* ------------------------------------------------------- page geometry
checksumSize == 4
physicalPageSize == 2 ^ physicalPageSizeLog2
physicalPageSizeMask == physicalPageSize - 1
logicalPageSize == physicalPageSize - checksumSize

Min(a, b) == IF a < b THEN a ELSE b
Max(a, b) == IF a > b THEN a ELSE b

Physical == "Physical"
Logical == "Logical"

SEEK_SET == "SEEK_SET"
SEEK_CUR == "SEEK_CUR"
SEEK_END == "SEEK_END"

\* ------------------------------------------------------------ checksum
RECURSIVE XorByte(_, _)
XorByte(a, b) == IF a = 0 THEN b
                 ELSE IF b = 0 THEN a
                 ELSE (((a % 2) + (b % 2)) % 2) + 2 * XorByte(a \div 2, b \div 2)

Xor32(v, w) == [i \in 1..4 |-> XorByte(v[i], w[i])]
Or32(v, w) == [i \in 1..4 |-> IF v[i] = 0 THEN w[i] ELSE v[i]]
Shl8(v) == <<0, v[1], v[2], v[3]>>
Shr8(v) == <<v[2], v[3], v[4], 0>>
Shl16(v) == <<0, 0, v[1], v[2]>>
Shr16(v) == <<v[3], v[4], 0, 0>>
Shr1(v) == [i \in 1..4 |-> (v[i] \div 2) + (IF i < 4 THEN (v[i + 1] % 2) * 128 ELSE 0)]
\* v & 0xFF00FF00 and v & 0x00FF00FF
AndFF00FF00(v) == <<0, v[2], 0, v[4]>>
And00FF00FF(v) == <<v[1], 0, v[3], 0>>

RECURSIVE ReflectByte(_, _)
ReflectByte(b, bits) == IF bits = 0 THEN 0
                        ELSE (b % 2) * (2 ^ (bits - 1)) + ReflectByte(b \div 2, bits - 1)
Reflect32(v) == [i \in 1..4 |-> ReflectByte(v[5 - i], 8)]

swap_uint32(val) ==
    LET v == Or32(AndFF00FF00(Shl8(val)), And00FF00FF(Shr8(val)))
    IN  Or32(Shl16(v), Shr16(v))

\* CRC-32C parameters { 0x1EDC6F41, 0xFFFFFFFF, 0xFFFFFFFF, true, true }
crcPolynomial == <<65, 111, 220, 30>>
crcInitialXOR == <<255, 255, 255, 255>>
crcFinalXOR == <<255, 255, 255, 255>>

RECURSIVE crcBits(_, _)
crcBits(c, k) ==
    IF k = 0 THEN c
    ELSE crcBits(IF c[1] % 2 = 1 THEN Xor32(Shr1(c), Reflect32(crcPolynomial)) ELSE Shr1(c),
                 k - 1)

sCRCTable == [i \in 0..255 |-> crcBits(<<i, 0, 0, 0>>, 8)]

RECURSIVE crcLoop(_, _, _, _)
crcLoop(buf, i, size, crc) ==
    IF i > size THEN crc
    ELSE crcLoop(buf, i + 1, size, Xor32(Shr8(crc), sCRCTable[XorByte(crc[1], buf[i])]))

CRCCalculate(buf, size) == Xor32(crcLoop(buf, 1, size, crcInitialXOR), crcFinalXOR)

checksum(buf, size) == swap_uint32(CRCCalculate(buf, size))

\* ------------------------------------------------------ offset mapping
physicalToLogical(physicalOffset) ==
    LET page == physicalOffset \div physicalPageSize
        remainder == physicalOffset % physicalPageSize
    IN  page * logicalPageSize + Min(remainder, logicalPageSize)

logicalToPhysical(logicalOffset) ==
    LET page == logicalOffset \div logicalPageSize
        remainder == logicalOffset - page * logicalPageSize
    IN  page * physicalPageSize + remainder

\* ------------------------------------------------- results of a call
\* A call returns the object state it leaves (s), the exception it threw
\* ("none" when it returned) and its return value.
Ok(s, v) == [s |-> s, err |-> "none", val |-> v]
Throw(s, e) == [s |-> s, err |-> e, val |-> 0]

\* ------------------------------------------------------------ backends
\* The object state s holds the members of CheckedFile and of its
\* BufferView, filePos, the offset the kernel keeps for fd_, and nShort,
\* the number of ::write calls so far that transferred less than asked.
BufferView_pos(s) == s.cursorStream_

\* BufferView::seek clamping the cursor without reporting it
BufferView_seek_silent(s, offset, whence) ==
    LET c == IF whence = SEEK_CUR THEN s.cursorStream_ + offset
             ELSE IF whence = SEEK_SET THEN offset
             ELSE IF whence = SEEK_END THEN s.streamSize_ - offset
             ELSE s.cursorStream_
    IN  IF c > s.streamSize_ \/ c < 0
        THEN [s |-> [s EXCEPT !.cursorStream_ = s.streamSize_], val |-> TRUE]
        ELSE [s |-> [s EXCEPT !.cursorStream_ = c], val |-> TRUE]

BufferView_seek(s, offset, whence) ==
    LET c == IF whence = SEEK_CUR THEN s.cursorStream_ + offset
             ELSE IF whence = SEEK_SET THEN offset
             ELSE IF whence = SEEK_END THEN s.streamSize_ - offset
             ELSE s.cursorStream_
    IN  \* c < 0 is the unsigned subtraction wrapping to a value above streamSize_
        IF c > s.streamSize_ \/ c < 0
        THEN [s |-> [s EXCEPT !.cursorStream_ = s.streamSize_], val |-> FALSE]
        ELSE [s |-> [s EXCEPT !.cursorStream_ = c], val |-> TRUE]

\* ::lseek64 of the host on descriptor fd_ of a file of the given size
os_lseek(s, size, offset, whence) ==
    LET target == IF whence = SEEK_SET THEN offset
                  ELSE IF whence = SEEK_CUR THEN s.filePos + offset
                  ELSE size + offset
    IN  IF s.fd_ < 0 \/ target < 0
        THEN [s |-> s, val |-> -1]
        ELSE [s |-> [s EXCEPT !.filePos = target], val |-> target]

\* Each handler is written as the chain of its statements: a stage takes
\* the result of the call before it, returns it when it threw and otherwise
\* goes on with the next statement.
lseek64_buf(r) == IF r.val THEN Ok(r.s, BufferView_pos(r.s)) ELSE Throw(r.s, "SeekFailed")

lseek64_fd(r) == IF r.val < 0 THEN Throw(r.s, "SeekFailed") ELSE Ok(r.s, r.val)

lseek64(s, size, offset, whence) ==
    IF s.fd_ < 0 /\ s.bufView_
    THEN lseek64_buf(BufferView_seek(s, offset, whence))
    ELSE lseek64_fd(os_lseek(s, size, offset, whence))

\* seek without the conversion of a logical offset
seek_unconverted(s, size, offset, omode) == lseek64(s, size, offset, SEEK_SET)

seek(s, size, offset, omode) ==
    lseek64(s, size, IF omode = Physical THEN offset ELSE logicalToPhysical(offset), SEEK_SET)

\* position without the conversion to a logical offset
position_unconverted(s, size, omode) == lseek64(s, size, 0, SEEK_CUR)

position_of(r, omode) ==
    IF r.err # "none" THEN r
    ELSE IF omode = Physical THEN r
    ELSE Ok(r.s, physicalToLogical(r.val))

position(s, size, omode) == position_of(lseek64(s, size, 0, SEEK_CUR), omode)

length_result(r3, end_pos) == IF r3.err # "none" THEN r3 ELSE Ok(r3.s, end_pos)

length_restore(r2, size, original_pos) ==
    IF r2.err # "none" THEN r2
    ELSE length_result(lseek64(r2.s, size, original_pos, SEEK_SET), r2.val)

length_end(r1, size) ==
    IF r1.err # "none" THEN r1
    ELSE length_restore(lseek64(r1.s, size, 0, SEEK_END), size, r1.val)

length(s, size, omode) ==
    IF omode = Physical
    THEN IF s.readOnly_ THEN Ok(s, s.physicalLength_)
         ELSE length_end(lseek64(s, size, 0, SEEK_CUR), size)
    ELSE Ok(s, s.logicalLength_)

pageOf(pos) == pos \div logicalPageSize

getCurrentPageAndOffset_of(r, omode) ==
    IF r.err # "none" THEN r
    ELSE IF omode = Physical
    THEN Ok(r.s, <<r.val \div physicalPageSize, r.val % physicalPageSize>>)
    ELSE Ok(r.s, <<pageOf(r.val), r.val - pageOf(r.val) * logicalPageSize>>)

\* returns val = <<page, pageOffset>>
getCurrentPageAndOffset(s, size, omode) ==
    getCurrentPageAndOffset_of(position(s, size, omode), omode)

\* ------------------------------------------------------------ page I/O
\* The environment of a call: env.ub is what a read beyond the end of the
\* caller's buffer does (ub.crash: the process dies; otherwise every such
\* byte reads as ub.byte), env.at is the page write of the call (1, 2, ...;
\* 0 for none) whose ::write returns env.res instead of physicalPageSize.
zeroPage == [i \in 1..physicalPageSize |-> 0]

BufferView_read(s, image, count, ub) ==
    IF s.cursorStream_ + count > Len(image) /\ ub.crash
    THEN [s |-> s, err |-> "Crash", val |-> <<>>]
    ELSE [s |-> [s EXCEPT !.cursorStream_ = s.cursorStream_ + count], err |-> "none",
          val |-> [i \in 1..count |->
                      IF s.cursorStream_ + i <= Len(image) THEN image[s.cursorStream_ + i]
                      ELSE ub.byte]]

available(s, image, count) == Max(0, Min(count, Len(image) - s.filePos))

\* ::read of the host: transfers what the file holds from filePos on
os_read(s, image, count) ==
    IF s.fd_ < 0 THEN [s |-> s, val |-> -1, buf |-> <<>>]
    ELSE [s |-> [s EXCEPT !.filePos = s.filePos + available(s, image, count)],
          val |-> available(s, image, count),
          buf |-> [i \in 1..available(s, image, count) |-> image[s.filePos + i]]]

\* ::write of the host returning result: the first result bytes of buf are
\* stored at filePos, a gap before filePos reads as zero
os_write(s, image, buf, result) ==
    IF s.fd_ < 0 \/ result < 0 THEN [s |-> s, image |-> image, val |-> -1]
    ELSE [s |-> [s EXCEPT !.filePos = s.filePos + result,
                          !.nShort = IF result < Len(buf) THEN @ + 1 ELSE @],
          image |-> [i \in 1..(IF result > 0 THEN Max(Len(image), s.filePos + result)
                               ELSE Len(image)) |->
                        IF i > s.filePos /\ i <= s.filePos + result THEN buf[i - s.filePos]
                        ELSE IF i <= Len(image) THEN image[i]
                        ELSE 0],
          val |-> result]

readPhysicalPage_fd(rd) ==
    IF rd.val < 0 \/ rd.val # physicalPageSize
    THEN [s |-> rd.s, err |-> "ReadFailed", val |-> <<>>]
    ELSE [s |-> rd.s, err |-> "none", val |-> rd.buf]

readPhysicalPage_at(r, image, ub) ==
    IF r.err # "none" THEN [s |-> r.s, err |-> r.err, val |-> <<>>]
    ELSE IF r.s.fd_ < 0 /\ r.s.bufView_
    THEN BufferView_read(r.s, image, physicalPageSize, ub)
    ELSE readPhysicalPage_fd(os_read(r.s, image, physicalPageSize))

readPhysicalPage(s, image, page, ub) ==
    readPhysicalPage_at(seek(s, Len(image), page * physicalPageSize, Physical), image, ub)

storeChecksum(page_buffer, check_sum) ==
    [i \in 1..physicalPageSize |->
        IF i <= logicalPageSize THEN page_buffer[i] ELSE check_sum[i - logicalPageSize]]

withChecksum(page_buffer) ==
    storeChecksum(page_buffer, checksum(page_buffer, logicalPageSize))

writePhysicalPage_fd(w, buf) ==
    [s |-> w.s, image |-> w.image, err |-> IF w.val < 0 THEN "WriteFailed" ELSE "none",
     val |-> buf]

writePhysicalPage_at(r, image, buf, result) ==
    IF r.err # "none" THEN [s |-> r.s, image |-> image, err |-> r.err, val |-> buf]
    ELSE writePhysicalPage_fd(os_write(r.s, image, buf, result), buf)

\* writePhysicalPage placing page k at k * logicalPageSize
writePhysicalPage_stride(s, image, page_buffer, page, result) ==
    writePhysicalPage_at(seek(s, Len(image), page * logicalPageSize, Physical), image,
                         withChecksum(page_buffer), result)

\* val is the page buffer, which now carries the checksum
writePhysicalPage(s, image, page_buffer, page, result) ==
    writePhysicalPage_at(seek(s, Len(image), page * physicalPageSize, Physical), image,
                         withChecksum(page_buffer), result)

verifyChecksum_throw(r, page) ==
    [s |-> r.s, err |-> IF r.err # "none" THEN r.err ELSE "BadChecksum", val |-> page]

\* verifyChecksum naming the page after the one that failed
verifyChecksum_next(s, size, page_buffer, page) ==
    IF [i \in 1..4 |-> page_buffer[logicalPageSize + i]] # checksum(page_buffer, logicalPageSize)
    THEN verifyChecksum_throw(length(s, size, Physical), page + 1)
    ELSE [s |-> s, err |-> "none", val |-> page]

\* val is the page named by the exception
verifyChecksum(s, size, page_buffer, page) ==
    IF [i \in 1..4 |-> page_buffer[logicalPageSize + i]] # checksum(page_buffer, logicalPageSize)
    THEN verifyChecksum_throw(length(s, size, Physical), page)
    ELSE [s |-> s, err |-> "none", val |-> page]

\* ------------------------------------------------------ checksum policy
ChecksumNone == 0
ChecksumAll == 100

\* round to nearest, halves to even, of num / den
nearbyint(num, den) ==
    IF 2 * (num % den) < den THEN num \div den
    ELSE IF 2 * (num % den) > den THEN (num \div den) + 1
    ELSE IF (num \div den) % 2 = 0 THEN num \div den
    ELSE (num \div den) + 1

\* static_cast<unsigned int>( std::nearbyint( 100.0 / policy ) ); for policy
\* 0 the quotient is infinite and the value is never used
checksumModOf(policy) == IF policy = 0 THEN 0 ELSE nearbyint(100, policy)

\* ---------------------------------------------------------------- read
\* A handler returns the object state and image it leaves, the exception
\* thrown, the page an exception names and the bytes delivered (buf).
Done(s, image, err, page, buf) ==
    [s |-> s, image |-> image, err |-> err, page |-> page, buf |-> buf]

\* the switch with the labels of the None and All cases exchanged
verifyByPolicy_swapped(s, size, page_buffer, page, nRead) ==
    IF s.checkSumPolicy_ = ChecksumAll THEN Ok(s, page)
    ELSE IF s.checkSumPolicy_ = ChecksumNone THEN verifyChecksum(s, size, page_buffer, page)
    ELSE IF page % checksumModOf(s.checkSumPolicy_) = 0 \/ nRead < physicalPageSize
    THEN verifyChecksum(s, size, page_buffer, page)
    ELSE Ok(s, page)

\* the switch on checkSumPolicy_ in the loop of read
verifyByPolicy(s, size, page_buffer, page, nRead) ==
    IF s.checkSumPolicy_ = ChecksumNone THEN Ok(s, page)
    ELSE IF s.checkSumPolicy_ = ChecksumAll THEN verifyChecksum(s, size, page_buffer, page)
    ELSE IF page % checksumModOf(s.checkSumPolicy_) = 0 \/ nRead < physicalPageSize
    THEN verifyChecksum(s, size, page_buffer, page)
    ELSE Ok(s, page)

RECURSIVE readLoop(_, _, _, _, _, _, _, _)
readLoop_copy(vc, page_buffer, image, out, nRead, page, pageOffset, n, env) ==
    IF vc.err # "none" THEN Done(vc.s, image, vc.err, vc.val, out)
    ELSE readLoop(vc.s, image, out \o SubSeq(page_buffer, pageOffset + 1, pageOffset + n),
                  nRead - n, page + 1, 0, Min(nRead - n, logicalPageSize), env)

readLoop_verify(rp, image, out, nRead, page, pageOffset, n, env) ==
    IF rp.err # "none" THEN Done(rp.s, image, rp.err, page, out)
    ELSE readLoop_copy(verifyByPolicy(rp.s, Len(image), rp.val, page, nRead), rp.val, image,
                       out, nRead, page, pageOffset, n, env)

readLoop(s, image, out, nRead, page, pageOffset, n, env) ==
    IF nRead = 0 THEN Done(s, image, "none", 0, out)
    ELSE readLoop_verify(readPhysicalPage(s, image, page, env.ub), image, out, nRead, page,
                         pageOffset, n, env)

read_seek(sk, image, buf) == Done(sk.s, image, sk.err, 0, buf)

\* read without the closing seek to end
read_done_noseek(l, end) == l

read_done(l, end) ==
    IF l.err # "none" THEN l
    ELSE read_seek(seek(l.s, Len(l.image), end, Logical), l.image, l.buf)

read_loop(g, image, nRead, end, env) ==
    IF g.err # "none" THEN Done(g.s, image, g.err, 0, <<>>)
    ELSE read_done(readLoop(g.s, image, <<>>, nRead, g.val[1], g.val[2],
                            Min(nRead, logicalPageSize - g.val[2]), env),
                   end)

\* read without the check of the end against length( Logical )
read_check_unchecked(p, image, nRead, env) ==
    IF p.err # "none" THEN Done(p.s, image, p.err, 0, <<>>)
    ELSE read_loop(getCurrentPageAndOffset(p.s, Len(image), Logical), image, nRead,
                   p.val + nRead, env)

read_check(p, image, nRead, env) ==
    IF p.err # "none" THEN Done(p.s, image, p.err, 0, <<>>)
    ELSE IF p.val + nRead > length(p.s, Len(image), Logical).val
    THEN Done(p.s, image, "Internal", 0, <<>>)
    ELSE read_loop(getCurrentPageAndOffset(p.s, Len(image), Logical), image, nRead,
                   p.val + nRead, env)

read(s, image, nRead, env) == read_check(position(s, Len(image), Logical), image, nRead, env)

\* --------------------------------------------------------------- write
\* memcpy( page_buffer + pageOffset, buf, n )
memcpy(page_buffer, pageOffset, buf, n) ==
    [i \in 1..physicalPageSize |->
        IF i > pageOffset /\ i <= pageOffset + n THEN buf[i - pageOffset] ELSE page_buffer[i]]

\* memset that forgets pageOffset: memset( page_buffer, 0, n )
memset_fromStart(page_buffer, pageOffset, n) ==
    [i \in 1..physicalPageSize |-> IF i <= n THEN 0 ELSE page_buffer[i]]

\* memset( page_buffer + pageOffset, 0, n )
memset(page_buffer, pageOffset, n) ==
    [i \in 1..physicalPageSize |->
        IF i > pageOffset /\ i <= pageOffset + n THEN 0 ELSE page_buffer[i]]

resultOf(iter, env) == IF iter = env.at THEN env.res ELSE physicalPageSize

\* an iteration that does not read the page it is about to modify
loadPage_skip(pl, image, page_buffer, page, env) ==
    [s |-> pl.s, err |-> pl.err, val |-> page_buffer]

\* the page buffer of an iteration: the page read when it exists in the
\* file, what the buffer held otherwise
loadPage(pl, image, page_buffer, page, env) ==
    IF pl.err # "none" THEN [s |-> pl.s, err |-> pl.err, val |-> page_buffer]
    ELSE IF page * physicalPageSize < pl.val
    THEN readPhysicalPage(pl.s, image, page, env.ub)
    ELSE [s |-> pl.s, err |-> "none", val |-> page_buffer]

RECURSIVE writeLoop(_, _, _, _, _, _, _, _, _, _)
writeLoop_next(wp, buf, nWrite, page, n, iter, env) ==
    IF wp.err # "none" THEN Done(wp.s, wp.image, wp.err, page, wp.val)
    ELSE writeLoop(wp.s, wp.image, wp.val, SubSeq(buf, n + 1, Len(buf)), nWrite - n, page + 1,
                   0, Min(nWrite - n, logicalPageSize), iter + 1, env)

writeLoop_store(rp, image, page_buffer, buf, nWrite, page, pageOffset, n, iter, env) ==
    IF rp.err # "none" THEN Done(rp.s, image, rp.err, page, page_buffer)
    ELSE writeLoop_next(writePhysicalPage(rp.s, image, memcpy(rp.val, pageOffset, buf, n),
                                          page, resultOf(iter, env)),
                        buf, nWrite, page, n, iter, env)

writeLoop(s, image, page_buffer, buf, nWrite, page, pageOffset, n, iter, env) ==
    IF nWrite = 0 THEN Done(s, image, "none", 0, page_buffer)
    ELSE writeLoop_store(loadPage(length(s, Len(image), Physical), image, page_buffer, page,
                                  env),
                         image, page_buffer, buf, nWrite, page, pageOffset, n, iter, env)

\* the update of logicalLength_ without the comparison
grow_always(s, end) == [s EXCEPT !.logicalLength_ = end]

grow(s, end) == IF end > s.logicalLength_ THEN [s EXCEPT !.logicalLength_ = end] ELSE s

write_seek(sk, image) == Done(sk.s, image, sk.err, 0, <<>>)

write_done(l, end) ==
    IF l.err # "none" THEN Done(l.s, l.image, l.err, l.page, <<>>)
    ELSE write_seek(seek(grow(l.s, end), Len(l.image), end, Logical), l.image)

write_loop(g, image, buf, end, env) ==
    IF g.err # "none" THEN Done(g.s, image, g.err, 0, <<>>)
    ELSE write_done(writeLoop(g.s, image, zeroPage, buf, Len(buf), g.val[1], g.val[2],
                              Min(Len(buf), logicalPageSize - g.val[2]), 1, env),
                    end)

write_start(p, image, buf, env) ==
    IF p.err # "none" THEN Done(p.s, image, p.err, 0, <<>>)
    ELSE write_loop(getCurrentPageAndOffset(p.s, Len(image), Logical), image, buf,
                    p.val + Len(buf), env)

\* write without the test of readOnly_
write_unguarded(s, image, buf, env) ==
    write_start(position(s, Len(image), Logical), image, buf, env)

write(s, image, buf, env) ==
    IF s.readOnly_ THEN Done(s, image, "FileReadOnly", 0, <<>>)
    ELSE write_start(position(s, Len(image), Logical), image, buf, env)

\* -------------------------------------------------------------- extend
RECURSIVE extendLoop(_, _, _, _, _, _, _, _, _)
extendLoop_next(wp, nWrite, page, n, iter, env) ==
    IF wp.err # "none" THEN Done(wp.s, wp.image, wp.err, page, wp.val)
    ELSE extendLoop(wp.s, wp.image, wp.val, nWrite - n, page + 1, 0,
                    IF nWrite - n < logicalPageSize THEN nWrite - n ELSE logicalPageSize,
                    iter + 1, env)

extendLoop_store(rp, image, page_buffer, nWrite, page, pageOffset, n, iter, env) ==
    IF rp.err # "none" THEN Done(rp.s, image, rp.err, page, page_buffer)
    ELSE extendLoop_next(writePhysicalPage(rp.s, image, memset(rp.val, pageOffset, n), page,
                                           resultOf(iter, env)),
                         nWrite, page, n, iter, env)

extendLoop(s, image, page_buffer, nWrite, page, pageOffset, n, iter, env) ==
    IF nWrite = 0 THEN Done(s, image, "none", 0, page_buffer)
    ELSE extendLoop_store(loadPage(length(s, Len(image), Physical), image, page_buffer, page,
                                   env),
                          image, page_buffer, nWrite, page, pageOffset, n, iter, env)

extend_seek(sk, image) == Done(sk.s, image, sk.err, 0, <<>>)

\* extend without the assignment to logicalLength_
extend_done_keep(l, newLogicalLength) ==
    IF l.err # "none" THEN Done(l.s, l.image, l.err, l.page, <<>>)
    ELSE extend_seek(seek(l.s, Len(l.image), newLogicalLength, Logical), l.image)

\* extend assigning logicalLength_ although the loop threw
extend_done_onError(l, newLogicalLength) ==
    IF l.err # "none"
    THEN Done([l.s EXCEPT !.logicalLength_ = newLogicalLength], l.image, l.err, l.page, <<>>)
    ELSE extend_seek(seek([l.s EXCEPT !.logicalLength_ = newLogicalLength], Len(l.image),
                          newLogicalLength, Logical),
                     l.image)

extend_done(l, newLogicalLength) ==
    IF l.err # "none" THEN Done(l.s, l.image, l.err, l.page, <<>>)
    ELSE extend_seek(seek([l.s EXCEPT !.logicalLength_ = newLogicalLength], Len(l.image),
                          newLogicalLength, Logical),
                     l.image)

extend_loop(g, image, nWrite, newLogicalLength, env) ==
    IF g.err # "none" THEN Done(g.s, image, g.err, 0, <<>>)
    ELSE extend_done(extendLoop(g.s, image, zeroPage, nWrite, g.val[1], g.val[2],
                                IF nWrite < logicalPageSize - g.val[2] THEN nWrite
                                ELSE logicalPageSize - g.val[2],
                                1, env),
                     newLogicalLength)

extend_start(sk, image, nWrite, newLogicalLength, env) ==
    IF sk.err # "none" THEN Done(sk.s, image, sk.err, 0, <<>>)
    ELSE extend_loop(getCurrentPageAndOffset(sk.s, Len(image), Logical), image, nWrite,
                     newLogicalLength, env)

\* extend seeking to the current end before it compares the lengths
extend_check_seekFirst(s, image, newLogicalLength, currentLogicalLength, env) ==
    IF newLogicalLength < currentLogicalLength
    THEN Done(seek(s, Len(image), currentLogicalLength, Logical).s, image, "Internal", 0, <<>>)
    ELSE extend_start(seek(s, Len(image), currentLogicalLength, Logical), image,
                      newLogicalLength - currentLogicalLength, newLogicalLength, env)

extend_check(s, image, newLogicalLength, currentLogicalLength, env) ==
    IF newLogicalLength < currentLogicalLength THEN Done(s, image, "Internal", 0, <<>>)
    ELSE extend_start(seek(s, Len(image), currentLogicalLength, Logical), image,
                      newLogicalLength - currentLogicalLength, newLogicalLength, env)

extend(s, image, newLength, omode, env) ==
    IF s.readOnly_ THEN Done(s, image, "FileReadOnly", 0, <<>>)
    ELSE extend_check(s, image,
                      IF omode = Physical THEN physicalToLogical(newLength) ELSE newLength,
                      length(s, Len(image), Logical).val, env)

\* --------------------------------------------------------------- close
\* result is what ::close returns; val counts the calls of ::close made
close_fd(s, result) ==
    IF result < 0 THEN [s |-> s, err |-> "CloseFailed", val |-> 1]
    ELSE Ok([s EXCEPT !.fd_ = -1], 1)

close_buf(r) ==
    IF r.err # "none" THEN r
    ELSE IF r.s.bufView_ THEN Ok([r.s EXCEPT !.bufView_ = FALSE], r.val)
    ELSE r

close(s, result) == close_buf(IF s.fd_ >= 0 THEN close_fd(s, result) ELSE Ok(s, 0))

\* -------------------------------------------------------- construction
\* members before a constructor body runs
members(policy) ==
    [fd_ |-> -1, bufView_ |-> FALSE, streamSize_ |-> 0, cursorStream_ |-> 0, filePos |-> 0,
     readOnly_ |-> FALSE, physicalLength_ |-> 0, logicalLength_ |-> 0,
     checkSumPolicy_ |-> policy, nShort |-> 0]

\* what both read-only constructors do once the backend is set
measure(s0, size) ==
    LET e == lseek64([s0 EXCEPT !.readOnly_ = TRUE], size, 0, SEEK_END)
        b == lseek64(e.s, size, 0, SEEK_SET)
    IN  [b.s EXCEPT !.physicalLength_ = e.val, !.logicalLength_ = physicalToLogical(e.val)]

\* CheckedFile( fileName, Read, policy ) on a file holding image
CheckedFile_Read(image, policy) ==
    measure([members(policy) EXCEPT !.fd_ = 3], Len(image))

\* CheckedFile( fileName, Write, policy ): the file is truncated
CheckedFile_Write(policy) == [members(policy) EXCEPT !.fd_ = 3]

\* CheckedFile( input, size, policy )
CheckedFile_Buffer(image, policy) ==
    measure([members(policy) EXCEPT !.bufView_ = TRUE, !.streamSize_ = Len(image)], Len(image))

\* ------------------------------------------------------- state machine
VARIABLES
    cf,     \* the CheckedFile object (its members and its backend cursor)
    image,  \* the bytes of the file or of the caller's buffer
    res,    \* the last call: operation, arguments, exception, result
    rt,     \* the first write of a fresh file, while no later write or extend
    nOps,   \* number of calls made
    twin    \* the same calls on objects opened on the image with other policies
vars == <<cf, image, res, rt, nOps, twin>>

\* inputs
Seeds == {1, 101}
Pattern(seed, n) == [i \in 1..n |-> (seed + 7 * i) % 256]
MaxLogical == MaxPages * logicalPageSize
MaxPhysical == MaxPages * physicalPageSize
SeekLogical == {0, 1, logicalPageSize, 2 * logicalPageSize}
SeekPhysical == {logicalPageSize + 1}
Lens == {0, 1, logicalPageSize, 2 * logicalPageSize + 1}
ExtendLogical == {1, 2 * logicalPageSize + 1}
ExtendPhysical == {physicalPageSize}
NoFault == [ub |-> [crash |-> FALSE, byte |-> 0], at |-> 0, res |-> physicalPageSize]

cursorOf(s) == IF s.fd_ < 0 /\ s.bufView_ THEN s.cursorStream_ ELSE s.filePos
logicalCursor(s) == physicalToLogical(cursorOf(s))
Call(op, start, n, mode, err, page, buf, val, wr) ==
    [op |-> op, start |-> start, n |-> n, mode |-> mode, err |-> err,
     page |-> page, buf |-> buf, val |-> val, wr |-> wr]
NoCall == Call("open", 0, 0, Logical, "none", 0, <<>>, 0, physicalPageSize)
Fresh == [st |-> "fresh", data |-> <<>>]
Stale == [st |-> "stale", data |-> <<>>]

Tick(limit) == nOps < limit /\ nOps' = nOps + 1

SeekDone(r, start, offset, omode) ==
    /\ cf' = r.s
    /\ res' = Call("seek", start, offset, omode, r.err, 0, <<>>, r.val, physicalPageSize)
    /\ UNCHANGED <<image, rt>>

SeekStep(offset, omode) ==
    SeekDone(seek(cf, Len(image), offset, omode), logicalCursor(cf), offset, omode)

PositionDone(r, start, omode) ==
    /\ cf' = r.s
    /\ res' = Call("position", start, 0, omode, r.err, 0, <<>>, r.val, physicalPageSize)
    /\ UNCHANGED <<image, rt>>

PositionStep(omode) == PositionDone(position(cf, Len(image), omode), logicalCursor(cf), omode)

LengthStep(omode) ==
    /\ cf' = length(cf, Len(image), omode).s
    /\ res' = Call("length", logicalCursor(cf), 0, omode, length(cf, Len(image), omode).err, 0,
                   <<>>, length(cf, Len(image), omode).val, physicalPageSize)
    /\ UNCHANGED <<image, rt>>

ReadDone(r, start, nRead) ==
    /\ cf' = r.s
    /\ res' = Call("read", start, nRead, Logical, r.err, r.page, r.buf, 0, physicalPageSize)
    /\ UNCHANGED <<image, rt>>

ReadStep(nRead, env) == ReadDone(read(cf, image, nRead, env), logicalCursor(cf), nRead)

WriteDone(r, start, buf, env) ==
    /\ cf' = r.s
    /\ image' = r.image
    /\ res' = Call("write", start, Len(buf), Logical, r.err, r.page, <<>>, 0, env.res)
    /\ rt' = IF rt.st = "fresh" /\ start = 0 /\ r.err = "none"
             THEN [st |-> "written", data |-> buf]
             ELSE Stale

WriteStep(buf, env) ==
    /\ logicalCursor(cf) + Len(buf) <= MaxLogical
    /\ WriteDone(write(cf, image, buf, env), logicalCursor(cf), buf, env)

ExtendDone(r, start, newLength, omode, env) ==
    /\ cf' = r.s
    /\ image' = r.image
    /\ res' = Call("extend", start, newLength, omode, r.err, r.page, <<>>, 0, env.res)
    /\ rt' = Stale

ExtendStep(newLength, omode, env) ==
    ExtendDone(extend(cf, image, newLength, omode, env), logicalCursor(cf), newLength, omode,
               env)

CloseStep(result) ==
    /\ cf' = close(cf, result).s
    /\ res' = Call("close", logicalCursor(cf), result, Logical, close(cf, result).err, 0, <<>>,
                   close(cf, result).val, physicalPageSize)
    /\ UNCHANGED <<image, rt>>

NoTwin == [clean |-> TRUE, runs |-> <<>>]

\* ---- a file opened for writing, on a backend that transfers whole pages
Init ==
    /\ \E policy \in {ChecksumNone, ChecksumAll} : cf = CheckedFile_Write(policy)
    /\ image = <<>>
    /\ res = NoCall
    /\ rt = Fresh
    /\ nOps = 0
    /\ twin = NoTwin

Seek ==
    /\ Tick(MaxOps)
    /\ UNCHANGED twin
    /\ \/ \E offset \in SeekLogical : SeekStep(offset, Logical)
       \/ \E offset \in SeekPhysical : SeekStep(offset, Physical)

Read == Tick(MaxOps) /\ UNCHANGED twin /\ \E nRead \in Lens : ReadStep(nRead, NoFault)

Write ==
    /\ Tick(MaxOps)
    /\ UNCHANGED twin
    /\ \E seed \in Seeds, n \in Lens : WriteStep(Pattern(seed, n), NoFault)

Extend ==
    /\ Tick(MaxOps)
    /\ UNCHANGED twin
    /\ \/ \E newLength \in ExtendLogical : ExtendStep(newLength, Logical, NoFault)
       \/ \E newLength \in ExtendPhysical : ExtendStep(newLength, Physical, NoFault)

Next == Seek \/ Read \/ Write \/ Extend

Spec == Init /\ [][Next]_vars

\* ---- the offset mapping, through seek and position on every offset
MapSeek ==
    /\ UNCHANGED <<nOps, twin>>
    /\ \/ \E offset \in 0..MaxLogical : SeekStep(offset, Logical)
       \/ \E offset \in 0..MaxPhysical : SeekStep(offset, Physical)

MapPosition ==
    /\ UNCHANGED <<nOps, twin>>
    /\ \E omode \in {Logical, Physical} : PositionStep(omode)

NextMap == MapSeek \/ MapPosition

SpecMap == Init /\ [][NextMap]_vars

\* ---- an existing image opened read-only, from a file or from a buffer
\* Images: MaxPages whole pages, those in bad corrupted (one data byte
\* changed after the checksum was stored), followed by the first bytes of a
\* further page when the image was truncated.
goodPage(k) == withChecksum(Pattern(10 * k + 3, physicalPageSize))
corruptPage(k) == [goodPage(k) EXCEPT ![1] = (@ + 1) % 256]
RECURSIVE pagesUpTo(_, _)
pagesUpTo(nPages, bad) ==
    IF nPages = 0 THEN <<>>
    ELSE pagesUpTo(nPages - 1, bad)
            \o (IF (nPages - 1) \in bad THEN corruptPage(nPages - 1) ELSE goodPage(nPages - 1))
Image(bad, tail) == pagesUpTo(MaxPages, bad) \o SubSeq(goodPage(MaxPages), 1, tail)
Tails == {0, logicalPageSize + 1}
\* the pages with a flipped data byte: none, exactly one, all but the first,
\* or all
Bads == {{k} : k \in 0..(MaxPages - 1)}
            \cup {{}, 1..(MaxPages - 1), 0..(MaxPages - 1)}
Images == {Image(bad, tail) : bad \in Bads, tail \in Tails}
ReadPolicies == {ChecksumNone, ChecksumAll, 50, 25}
ReadLens == Lens \cup {logicalPageSize + 1}
UBs == {[crash |-> TRUE, byte |-> 0], [crash |-> FALSE, byte |-> 0],
        [crash |-> FALSE, byte |-> 170]}
\* a read can run past the end only of a buffer that ends inside a page
Envs == IF cf.bufView_ /\ Len(image) % physicalPageSize # 0
        THEN {[ub |-> u, at |-> 0, res |-> physicalPageSize] : u \in UBs}
        ELSE {NoFault}

InitRead ==
    /\ image \in Images
    /\ \E policy \in ReadPolicies :
          \/ cf = CheckedFile_Read(image, policy)
          \/ cf = CheckedFile_Buffer(image, policy)
    /\ res = NoCall
    /\ rt = Stale
    /\ nOps = 0
    /\ twin = NoTwin

RSeek ==
    /\ Tick(MaxReadOps)
    /\ UNCHANGED twin
    /\ \/ \E offset \in SeekLogical : SeekStep(offset, Logical)
       \/ \E offset \in SeekPhysical : SeekStep(offset, Physical)

RRead ==
    /\ Tick(MaxReadOps)
    /\ UNCHANGED twin
    /\ \E nRead \in ReadLens, env \in Envs : ReadStep(nRead, env)

RWrite == Tick(MaxReadOps) /\ UNCHANGED twin /\ WriteStep(Pattern(1, 1), NoFault)

RExtend ==
    /\ Tick(MaxReadOps)
    /\ UNCHANGED twin
    /\ ExtendStep((MaxPages + 1) * logicalPageSize, Logical, NoFault)

NextRead == RSeek \/ RRead \/ RWrite \/ RExtend

SpecRead == InitRead /\ [][NextRead]_vars

\* ---- a file opened for writing, on a backend whose ::write may fail or
\* transfer less than a page
Faults == {NoFault,
           [NoFault EXCEPT !.at = 1, !.res = logicalPageSize],
           [NoFault EXCEPT !.at = 1, !.res = -1],
           [NoFault EXCEPT !.at = 2, !.res = -1]}

FSeek ==
    /\ Tick(MaxFaultOps)
    /\ UNCHANGED twin
    /\ \/ \E offset \in SeekLogical : SeekStep(offset, Logical)
       \/ \E offset \in SeekPhysical : SeekStep(offset, Physical)

FRead == Tick(MaxFaultOps) /\ UNCHANGED twin /\ \E nRead \in Lens : ReadStep(nRead, NoFault)

FWrite ==
    /\ Tick(MaxFaultOps)
    /\ UNCHANGED twin
    /\ \E seed \in Seeds, n \in Lens, env \in Faults : WriteStep(Pattern(seed, n), env)

FExtend ==
    /\ Tick(MaxFaultOps)
    /\ UNCHANGED twin
    /\ \/ \E newLength \in ExtendLogical, env \in Faults : ExtendStep(newLength, Logical, env)
       \/ \E newLength \in ExtendPhysical, env \in Faults : ExtendStep(newLength, Physical, env)

NextFault == FSeek \/ FRead \/ FWrite \/ FExtend

SpecFault == Init /\ [][NextFault]_vars

\* ---- a read-only object that is closed, perhaps more than once; ::close
\* returns 0 or -1
CClose == Tick(MaxReadOps) /\ UNCHANGED twin /\ \E result \in {0, -1} : CloseStep(result)

NextClose == CClose \/ (res.op # "close" /\ RSeek) \/ (res.op # "close" /\ RRead)

SpecClose == InitRead /\ [][NextClose]_vars

\* ---- lseek64 with each whence, and position, on a buffer; res.mode of a
\* seek is its whence
BLseek ==
    /\ UNCHANGED <<nOps, twin>>
    /\ \E offset \in {0, 1, physicalPageSize, MaxPhysical + physicalPageSize},
          whence \in {SEEK_SET, SEEK_CUR, SEEK_END} :
          SeekDone(lseek64(cf, Len(image), offset, whence), logicalCursor(cf), offset, whence)

NextBuf == BLseek \/ MapPosition

InitBuf == InitRead /\ cf.bufView_

SpecBuf == InitBuf /\ [][NextBuf]_vars

\* ---- the writes and extends of Spec, and Logical seeks to offsets up to
\* the logical length
SeqSeek ==
    /\ Tick(MaxOps)
    /\ UNCHANGED twin
    /\ \E offset \in SeekLogical : offset <= cf.logicalLength_ /\ SeekStep(offset, Logical)

NextSeq == SeqSeek \/ Write \/ Extend

SpecSeq == Init /\ [][NextSeq]_vars

\* ---- the seeks, writes and extends of Spec, and writes and extends whose
\* ::write falls short on the first page or fails on the second
Faulty ==
    /\ Tick(MaxOps)
    /\ UNCHANGED twin
    /\ \E env \in {f \in Faults : f.at = 2 \/ f.res >= 0} \ {NoFault} :
          \/ WriteStep(Pattern(1, logicalPageSize + 1), env)
          \/ ExtendStep(2 * logicalPageSize + 1, Logical, env)

NextFaulty == Seek \/ Write \/ Extend \/ Faulty

SpecFaulty == Init /\ [][NextFaulty]_vars

\* ---- position and length between the seeks, reads and writes of an
\* object opened for writing or opened read-only on a file or a buffer
InitQuery == Init \/ InitRead

QLength ==
    /\ UNCHANGED <<nOps, twin>>
    /\ \E omode \in {Logical, Physical} : LengthStep(omode)

NextQuery == RSeek \/ RRead \/ Write \/ MapPosition \/ QLength

SpecQuery == InitQuery /\ [][NextQuery]_vars

\* ---- the same seeks and reads on objects opened on one image with each
\* policy: cf has policy All, twin.runs[p] has policy p, and twin.clean says
\* that every read so far succeeded on cf
TwinPolicies == ReadPolicies \ {ChecksumAll}

InitPolicy ==
    /\ image \in Images
    /\ \/ /\ cf = CheckedFile_Read(image, ChecksumAll)
          /\ twin = [clean |-> TRUE,
                     runs |-> [p \in TwinPolicies |->
                                  [cf |-> CheckedFile_Read(image, p), err |-> "none",
                                   buf |-> <<>>]]]
       \/ /\ cf = CheckedFile_Buffer(image, ChecksumAll)
          /\ twin = [clean |-> TRUE,
                     runs |-> [p \in TwinPolicies |->
                                  [cf |-> CheckedFile_Buffer(image, p), err |-> "none",
                                   buf |-> <<>>]]]
    /\ res = NoCall
    /\ rt = Stale
    /\ nOps = 0

TwinOf(r) == [cf |-> r.s, err |-> r.err, buf |-> r.buf]
TwinSeekOf(r) == [cf |-> r.s, err |-> r.err, buf |-> <<>>]

PSeekStep(offset, omode) ==
    /\ SeekStep(offset, omode)
    /\ twin' = [twin EXCEPT !.runs = [p \in TwinPolicies |->
                   TwinSeekOf(seek(twin.runs[p].cf, Len(image), offset, omode))]]

PReadStep(nRead, env) ==
    /\ ReadStep(nRead, env)
    /\ twin' = [clean |-> twin.clean /\ res'.err = "none",
                runs |-> [p \in TwinPolicies |->
                             TwinOf(read(twin.runs[p].cf, image, nRead, env))]]

PSeek ==
    /\ Tick(MaxReadOps)
    /\ \/ \E offset \in SeekLogical : PSeekStep(offset, Logical)
       \/ \E offset \in SeekPhysical : PSeekStep(offset, Physical)

PRead == Tick(MaxReadOps) /\ \E nRead \in ReadLens, env \in Envs : PReadStep(nRead, env)

NextPolicy == PSeek \/ PRead

SpecPolicy == InitPolicy /\ [][NextPolicy]_vars

\* ------------------------------------------------------------- claims
pageData(img, k) == SubSeq(img, k * physicalPageSize + 1, k * physicalPageSize + logicalPageSize)
pageSuffix(img, k) ==
    SubSeq(img, k * physicalPageSize + logicalPageSize + 1, (k + 1) * physicalPageSize)
fullPages(img) == Len(img) \div physicalPageSize
pageValid(img, k) == pageSuffix(img, k) = checksum(pageData(img, k), logicalPageSize)
lengthPhysical == length(cf, Len(image), Physical).val

\* C1: on a freshly opened writable file, writing S at logical offset 0 and
\* then reading Len(S) bytes from logical offset 0 succeeds and returns S.
C1_RoundTrip ==
    (res.op = "read" /\ rt.st = "written" /\ res.start = 0 /\ res.n = Len(rt.data))
        => (res.err = "none" /\ res.buf = rt.data)

C1_Witness ==
    /\ res.op = "read" /\ rt.st = "written" /\ res.start = 0
    /\ res.n = Len(rt.data) /\ res.n > 2 * logicalPageSize
    /\ res.err = "none" /\ res.buf = rt.data

\* C2: every whole page of the image of a writable file ends in the
\* checksum of its data region, whatever seeks, writes and extends were made.
C2_ChecksumInvariant ==
    \A k \in 0..(fullPages(image) - 1) : pageValid(image, k)

\* C3: logicalLength <= (physicalLength / physicalPageSize) * logicalPageSize
\* in every reachable state.
C3_LengthInvariant ==
    cf.logicalLength_ <= (lengthPhysical \div physicalPageSize) * logicalPageSize

\* C5 as stated: for every physical offset P with P mod physicalPageSize <=
\* logicalPageSize, mapping position(Logical) at P back gives P.
C5_InverseOnBoundaries ==
    (res.op = "position" /\ res.mode = Logical /\ res.err = "none"
        /\ cursorOf(cf) % physicalPageSize <= logicalPageSize)
        => logicalToPhysical(res.val) = cursorOf(cf)

\* C5 amended: for every physical offset P with P mod physicalPageSize <
\* logicalPageSize (P inside a data region), logicalToPhysical of
\* position(Logical) at P is P.
C5_InverseInsideData ==
    (res.op = "position" /\ res.mode = Logical /\ res.err = "none"
        /\ cursorOf(cf) % physicalPageSize < logicalPageSize)
        => logicalToPhysical(res.val) = cursorOf(cf)

C5_Witness ==
    /\ res.op = "position" /\ res.mode = Logical /\ res.err = "none"
    /\ cursorOf(cf) = physicalPageSize + logicalPageSize - 1
    /\ logicalToPhysical(res.val) = cursorOf(cf)

\* C6: seek(L, Logical) followed by position(Logical) returns L, for every
\* logical offset L, page boundaries included.
C6_Bijection ==
    [][(res.op = "seek" /\ res.mode = Logical /\ res.err = "none"
            /\ res'.op = "position" /\ res'.mode = Logical)
        => (res'.err = "none" /\ res'.val = res.n)]_vars

C6_Witness ==
    /\ res.op = "position" /\ res.mode = Logical /\ res.err = "none"
    /\ res.val = 2 * logicalPageSize /\ cursorOf(cf) = 2 * physicalPageSize

\* ---- reads of an existing image
\* the pages a read of res.n bytes from res.start asks for, when it passed
\* the check against the logical length
firstPage == res.start \div logicalPageSize
lastPage == (res.start + res.n - 1) \div logicalPageSize
ReadRan == res.op = "read" /\ res.err # "Internal" /\ res.err # "SeekFailed" /\ res.n > 0
Touches(k) == ReadRan /\ k \in firstPage..lastPage
Corrupted(k) == k < fullPages(image) /\ ~pageValid(image, k)
OnlyCorrupted(k) == \A j \in 0..(fullPages(image) - 1) : Corrupted(j) <=> j = k
\* bytes of the request not yet delivered when page k is read
residualAt(k) == res.start + res.n - Max(res.start, k * logicalPageSize)
Sampled == cf.checkSumPolicy_ # ChecksumNone /\ cf.checkSumPolicy_ # ChecksumAll
sampleMod == nearbyint(100, cf.checkSumPolicy_)
logicalBytes(img, start, n) == [i \in 1..n |-> img[logicalToPhysical(start + i - 1) + 1]]

\* C4: under Sampled(p), with page k the one corrupted page, a read raises
\* BadChecksum for page k iff it touches page k and k mod round(100/p) = 0
\* or k is the last page it touches; no other touched page is verified.
C4_SampledLastPage ==
    \A k \in 0..(fullPages(image) - 1) :
        (Sampled /\ res.op = "read" /\ OnlyCorrupted(k))
            => ((res.err = "BadChecksum" /\ res.page = k)
                    <=> (Touches(k) /\ (k % sampleMod = 0 \/ k = lastPage)))

\* The rule read applies instead: page k is verified when k mod round(100/p)
\* = 0 or fewer than physicalPageSize bytes of the request are still to be
\* delivered when page k is read, which holds for the last page touched and
\* also for the page before it when more than logicalPageSize bytes remain.
C4_SampledResidual ==
    \A k \in 0..(fullPages(image) - 1) :
        (Sampled /\ res.op = "read" /\ OnlyCorrupted(k))
            => ((res.err = "BadChecksum" /\ res.page = k)
                    <=> (Touches(k) /\ (k % sampleMod = 0
                                            \/ residualAt(k) < physicalPageSize)))

\* a read over pages 0..2 that raises BadChecksum for page 1, which is not
\* a sampled page and not the last page touched
C4_Witness ==
    /\ Sampled /\ res.op = "read" /\ OnlyCorrupted(1) /\ Touches(1)
    /\ 1 % sampleMod # 0 /\ lastPage = 2 /\ residualAt(1) < physicalPageSize
    /\ res.err = "BadChecksum" /\ res.page = 1

\* C7: on an image that ends inside a page (its whole pages intact), a read
\* that touches that partial page fails with ReadFailed, on either backend.
C7_TruncatedReadFails ==
    (Len(image) % physicalPageSize # 0 /\ Touches(fullPages(image))
        /\ \A k \in 0..(fullPages(image) - 1) : ~Corrupted(k))
        => res.err = "ReadFailed"

\* C8: a call in which ::write transferred less than a page raises
\* WriteFailed.
C8_ShortWriteReported ==
    [][cf'.nShort > cf.nShort => res'.err = "WriteFailed"]_vars

\* C9: under All a read that touches a corrupted page raises BadChecksum
\* naming the lowest such page; under None no read raises BadChecksum and a
\* read that returns delivers the stored bytes.
C9_AllNone ==
    /\ (cf.checkSumPolicy_ = ChecksumAll /\ \E k \in 0..(fullPages(image) - 1) :
                                               Touches(k) /\ Corrupted(k))
          => (res.err = "BadChecksum"
                /\ Touches(res.page) /\ Corrupted(res.page)
                /\ \A j \in 0..(res.page - 1) : ~(Touches(j) /\ Corrupted(j)))
    /\ (cf.checkSumPolicy_ = ChecksumNone /\ res.op = "read")
          => (res.err # "BadChecksum"
                /\ (res.err = "none" => res.buf = logicalBytes(image, res.start, res.n)))

C9_Witness ==
    /\ cf.checkSumPolicy_ = ChecksumAll /\ firstPage = 1 /\ lastPage = 2
    /\ Touches(1) /\ Corrupted(0) /\ Corrupted(1) /\ Corrupted(2)
    /\ res.err = "BadChecksum" /\ res.page = 1

\* C10: while every read succeeded under policy All, the same seeks and
\* reads under None and under each Sampled(p) had the same outcome, returned
\* the same bytes and left the same cursor.
C10_PolicyMonotone ==
    twin.clean =>
        \A p \in DOMAIN twin.runs :
            /\ twin.runs[p].err = res.err
            /\ twin.runs[p].buf = res.buf
            /\ cursorOf(twin.runs[p].cf) = cursorOf(cf)

C10_Witness ==
    /\ twin.clean /\ DOMAIN twin.runs = TwinPolicies
    /\ res.op = "read" /\ res.err = "none" /\ firstPage = 1 /\ lastPage = 2
    /\ Corrupted(0)
    /\ \A p \in TwinPolicies : twin.runs[p].buf = res.buf /\ twin.runs[p].err = "none"

\* ---- calls compared with the state they started in
\* the bytes a read of n bytes from logical offset L delivers in state s
readAt(s, img, L, n) == read(seek(s, Len(img), L, Logical).s, img, n, NoFault)
allZero(buf) == \A i \in 1..Len(buf) : buf[i] = 0
\* logical byte i of an image, where the image holds it
stored(img, i) == logicalToPhysical(i) < Len(img)
storedByte(img, i) == img[logicalToPhysical(i) + 1]

\* C11: after a successful extend(N, Logical) of a file of logical length
\* M <= N, logicalLength is N, a read of [M, N) succeeds and delivers only
\* zero bytes, and every stored logical byte of [0, M) is unchanged.
C11_ExtendZeroes ==
    [][(res'.op = "extend" /\ res'.mode = Logical /\ res'.err = "none")
        => /\ cf'.logicalLength_ = res'.n
           /\ readAt(cf', image', cf.logicalLength_, res'.n - cf.logicalLength_).err = "none"
           /\ Len(readAt(cf', image', cf.logicalLength_, res'.n - cf.logicalLength_).buf)
                  = res'.n - cf.logicalLength_
           /\ allZero(readAt(cf', image', cf.logicalLength_, res'.n - cf.logicalLength_).buf)
           /\ \A i \in 0..(cf.logicalLength_ - 1) :
                  stored(image, i) => storedByte(image', i) = storedByte(image, i)]_vars

\* an extend over three pages of a file that held written data
C11_Witness ==
    /\ res.op = "extend" /\ res.mode = Logical /\ res.err = "none"
    /\ res.n = 2 * logicalPageSize + 1 /\ cf.logicalLength_ = res.n
    /\ storedByte(image, 0) # 0
    /\ allZero(readAt(cf, image, logicalPageSize, logicalPageSize + 1).buf)
    /\ Len(readAt(cf, image, logicalPageSize, logicalPageSize + 1).buf) = logicalPageSize + 1

\* C12: no write or extend, returning or throwing, decreases logicalLength;
\* after a write of n bytes from logical position L that returned,
\* logicalLength is the larger of its previous value and L + n.
C12_LengthMonotone ==
    [][/\ (res'.op \in {"write", "extend"}) => cf'.logicalLength_ >= cf.logicalLength_
       /\ (res'.op = "write" /\ res'.err = "none")
             => cf'.logicalLength_ = Max(cf.logicalLength_, res'.start + res'.n)]_vars

\* a write inside a file of three pages that threw after its first page was
\* written, and left the length as it was
C12_Witness ==
    /\ res.op = "write" /\ res.err = "WriteFailed" /\ res.start = 0
    /\ res.n = logicalPageSize + 1 /\ cf.logicalLength_ = 2 * logicalPageSize + 1

\* C13: a read of n bytes with position(Logical) + n > length(Logical)
\* throws Internal and leaves the object, its backend cursor and the image
\* as they were (no page was read).
C13_ReadPastEnd ==
    [][(res'.op = "read" /\ position(cf, Len(image), Logical).err = "none"
            /\ position(cf, Len(image), Logical).val + res'.n
                   > length(cf, Len(image), Logical).val)
        => (res'.err = "Internal" /\ cf' = cf /\ image' = image)]_vars

\* a read from inside the stream that asks for more than is left
C13_Witness ==
    /\ res.op = "read" /\ res.err = "Internal"
    /\ res.start > 0 /\ res.start < cf.logicalLength_
    /\ res.start + res.n > cf.logicalLength_
    /\ logicalCursor(cf) = res.start

\* C14: on an object opened in Read mode or on a buffer, every write and
\* every extend throws FileReadOnly and leaves the object, its backend cursor
\* and the image as they were.
C14_ReadOnly ==
    [][(cf.readOnly_ /\ res'.op \in {"write", "extend"})
        => (res'.err = "FileReadOnly" /\ cf' = cf /\ image' = image)]_vars

C14_Witness ==
    /\ cf.readOnly_ /\ cf.bufView_ /\ res.op = "write" /\ res.err = "FileReadOnly"
    /\ cursorOf(cf) > 0 /\ cf.logicalLength_ > 0

\* C15: an extend whose new length, converted to logical in Physical mode,
\* is below logicalLength throws Internal and leaves the object, its backend
\* cursor and the image as they were.
C15_ExtendNoShrink ==
    [][(res'.op = "extend" /\ ~cf.readOnly_
            /\ (IF res'.mode = Physical THEN physicalToLogical(res'.n) ELSE res'.n)
                   < cf.logicalLength_)
        => (res'.err = "Internal" /\ cf' = cf /\ image' = image)]_vars

\* a Physical-mode extend to one page of a file of three pages, the cursor
\* not at the end
C15_Witness ==
    /\ res.op = "extend" /\ res.mode = Physical /\ res.err = "Internal"
    /\ physicalToLogical(res.n) < cf.logicalLength_
    /\ logicalCursor(cf) < cf.logicalLength_
    /\ Len(image) = 3 * physicalPageSize

\* C16: a call of close that follows a call of close on the same object
\* throws nothing and does not call ::close.
C16_CloseTwice ==
    [][(res.op = "close" /\ res'.op = "close") => (res'.err = "none" /\ res'.val = 0)]_vars

\* What holds instead: a call of close that follows a call of close which
\* returned throws nothing and does not call ::close.
C16_CloseAfterClosed ==
    [][(res.op = "close" /\ res.err = "none" /\ res'.op = "close")
        => (res'.err = "none" /\ res'.val = 0)]_vars

\* ---- the cursor of a buffer
\* the position a seek of the buffer asks for; below 0 stands for the
\* unsigned difference streamSize_ - offset wrapping to a value above every
\* buffer size
BufferTarget(s, offset, whence) ==
    IF whence = SEEK_SET THEN offset
    ELSE IF whence = SEEK_CUR THEN s.cursorStream_ + offset
    ELSE s.streamSize_ - offset
BeyondBuffer(s, offset, whence) ==
    BufferTarget(s, offset, whence) > s.streamSize_ \/ BufferTarget(s, offset, whence) < 0

\* C17: on a buffer, a seek (whence Set, Cur or End) to a position beyond
\* the buffer size throws SeekFailed and leaves the cursor at the buffer
\* size, and a position query that follows reports the buffer size.
C17_SeekClamp ==
    [][/\ (res'.op = "seek" /\ BeyondBuffer(cf, res'.n, res'.mode))
             => (res'.err = "SeekFailed" /\ cf'.cursorStream_ = cf.streamSize_)
       /\ (res.op = "seek" /\ res.err = "SeekFailed"
               /\ res'.op = "position" /\ res'.mode = Physical)
             => (res'.err = "none" /\ res'.val = cf.streamSize_)]_vars

\* a seek by one byte from the end of a buffer that ends inside a page
C17_Witness ==
    /\ res.op = "seek" /\ res.mode = SEEK_CUR /\ res.n = 1 /\ res.err = "SeekFailed"
    /\ cf.cursorStream_ = cf.streamSize_ /\ cf.streamSize_ % physicalPageSize # 0

\* C18: a write of n bytes from logical offset o that returned changed no
\* logical byte of [0, previous logicalLength) outside [o, o + n).
C18_WriteFrame ==
    [][(res'.op = "write" /\ res'.err = "none")
        => \A i \in 0..(cf.logicalLength_ - 1) :
              (stored(image, i) /\ (i < res'.start \/ i >= res'.start + res'.n))
                  => (stored(image', i) /\ storedByte(image', i) = storedByte(image, i))]_vars

\* a file of three pages written with one pattern, then overwritten from
\* offset 1 for a page's length: the write starts inside the first page and
\* ends inside the second
C18_Witness ==
    /\ res.op = "write" /\ res.err = "none" /\ res.start = 1 /\ res.n = logicalPageSize
    /\ cf.logicalLength_ = 2 * logicalPageSize + 1
    /\ \E a \in Seeds, b \in Seeds :
          /\ storedByte(image, 0) = Pattern(a, 1)[1]
          /\ \A i \in 1..logicalPageSize : storedByte(image, i) = Pattern(b, logicalPageSize)[i]
          /\ \A i \in (logicalPageSize + 1)..(2 * logicalPageSize) :
                storedByte(image, i) = Pattern(a, 2 * logicalPageSize + 1)[i + 1]

\* C19: on a file opened for writing, after writes, extends and Logical
\* seeks to offsets <= logicalLength, length(Physical) is
\* ceil(logicalLength / logicalPageSize) * physicalPageSize.
C19_PhysicalTracksLogical ==
    lengthPhysical
        = ((cf.logicalLength_ + logicalPageSize - 1) \div logicalPageSize) * physicalPageSize

\* a write of one byte at the end of a file of exactly one page, which
\* creates the second page
C19_Witness ==
    /\ res.op = "write" /\ res.err = "none" /\ res.start = logicalPageSize /\ res.n = 1
    /\ cf.logicalLength_ = logicalPageSize + 1 /\ lengthPhysical = 2 * physicalPageSize

\* C20: after a successful read or write of n bytes that started at
\* logical position L, position(Logical) is L + n, for every n >= 0 and any
\* number of pages crossed.
C20_CursorAfterTransfer ==
    [][(res'.op \in {"read", "write"} /\ res'.err = "none")
        => /\ position(cf', Len(image'), Logical).err = "none"
           /\ position(cf', Len(image'), Logical).val = res'.start + res'.n]_vars

\* a read of two pages and a byte from offset 0
C20_Witness ==
    /\ res.op = "read" /\ res.err = "none" /\ res.start = 0
    /\ res.n = 2 * logicalPageSize + 1
    /\ position(cf, Len(image), Logical).val = 2 * logicalPageSize + 1

\* the page extend's loop starts on, and whether the extend that just ran
\* threw from its loop after writing at least one page (res.page is the page
\* the loop was on when it threw)
extendFirstPage(s) == pageOf(logicalToPhysical(s.logicalLength_))
loopErrors == {"ReadFailed", "WriteFailed"}

C22_QueriesPure ==
    [][(res'.op \in {"position", "length"}) => (cf' = cf /\ image' = image)]_vars

\* what does hold: length in either mode, and every position that returns,
\* leaves the object and the image as they were; on a file opened for
\* writing length(Physical) puts the cursor back
C22_ReturningQueriesPure ==
    [][(res'.op = "length" \/ (res'.op = "position" /\ res'.err = "none"))
        => (cf' = cf /\ image' = image)]_vars

\* length(Physical) on a file opened for writing, with the cursor before the
\* end of the file
C22_Witness ==
    /\ res.op = "length" /\ res.mode = Physical /\ res.err = "none"
    /\ ~cf.readOnly_
    /\ res.val = Len(image) /\ cf.filePos < Len(image)

====
